---- MODULE Spec2Model ----
(***************************************************************************)
(* Model of the grocery inventory backend: the product store, the CSV      *)
(* ingestion handler (POST /products/upload-csv), the single-product       *)
(* creation handler (POST /product), the device registration handler      *)
(* (POST /token), the update and delete handlers (PUT and DELETE           *)
(* /product/:id), connectDB with its middleware, and the expiry-           *)
(* notification cron job.                                                  *)
(*                                                                         *)
(* Text values that the code takes apart (product names: trim, RegExp)     *)
(* are sequences of one-character strings.  Text values that the code      *)
(* only converts (Number(..), new Date(..)) are strings, converted by the  *)
(* tables JsNumber and JsDate.  A CSV row is a function from the columns   *)
(* present in that row to their text, plus lineNumber; a column that is    *)
(* not in the row's domain reads as undefined.                             *)
(***************************************************************************)
EXTENDS Integers, Sequences, FiniteSets, TLC

VARIABLES
  app,                \* which server file is deployed: "index" (part_003) or "server" (server.js)
  products,           \* Product collection, in insertion (scan) order
  upPc,               \* upload-csv handler position
  results,            \* parsed rows of the upload in progress
  rowIdx,             \* index of the row the for-loop is at
  curName,            \* name.trim() of the row whose findOne/create is awaited
  errors,             \* errors[] of the upload
  skipped,            \* skipped[] of the upload
  successfulProducts, \* successfulProducts[] of the upload
  upStatus,           \* HTTP status of the upload's response (0: none yet)
  upCalls,            \* store calls the upload has issued: [findOne |-> n, create |-> n]
  upStart,            \* the Product collection when the upload request arrived
  reupload,           \* "no", or that the upload in progress repeats the previous CSV:
                      \* "clean" when no store call of the previous upload failed, else "faulty"
  postPc,             \* POST /product handler position
  postBody,           \* req.body of the POST /product in progress
  postStatus,         \* HTTP status of the POST /product response (0: none yet)
  regs,               \* the POST /token requests in progress, by connection
  db,                 \* cached = {conn, promise}, the connect attempts made so far and
                      \* the requests inside checkDbConnection
  users,              \* User collection (registered devices), in insertion (scan) order
  firebaseInitialized, \* the flag firebase.js exports at process start
  now,                \* the wall clock, in ticks
  runs                \* the invocations of the cron callback, by slot

vars == <<app, products, upPc, results, rowIdx, curName, errors, skipped,
          successfulProducts, upStatus, upCalls, upStart, reupload,
          postPc, postBody, postStatus, regs, db, users, firebaseInitialized, now, runs>>

cronVars == <<users, firebaseInitialized, now, runs>>

upVars == <<upPc, results, rowIdx, curName, errors, skipped,
            successfulProducts, upStatus, upCalls, upStart, reupload>>

postVars == <<postPc, postBody, postStatus>>

----------------------------------------------------------------------------
(* Bounds of the model *)

MaxRows == 2        \* rows in one uploaded CSV
MaxProducts == 3    \* size of the Product collection
MaxScan == 2        \* products in the collection a cron invocation scans
MaxUsers == 2       \* registered devices
MaxTime == 2        \* ticks the clock advances
MaxAttempts == 2    \* connect attempts (calls of mongoose.connect)

\* The clock counts ticks of half a day where the code counts milliseconds:
\* 1000 * 60 * 60 * 24 of them make a day there, TicksPerDay here.
TicksPerDay == 2

----------------------------------------------------------------------------
(* JavaScript text primitives *)

\* String.prototype.toLowerCase on one character (what the RegExp i flag folds).
Lower(c) == IF c = "A" THEN "a" ELSE IF c = "B" THEN "b" ELSE c

IsSpace(c) == c = " "

RECURSIVE TrimStart(_)
TrimStart(s) ==
  IF s = <<>> THEN <<>>
  ELSE IF IsSpace(Head(s)) THEN TrimStart(Tail(s)) ELSE s

RECURSIVE TrimEnd(_)
TrimEnd(s) ==
  IF s = <<>> THEN <<>>
  ELSE IF IsSpace(s[Len(s)]) THEN TrimEnd(SubSeq(s, 1, Len(s) - 1)) ELSE s

\* String.prototype.trim
Trim(s) == TrimEnd(TrimStart(s))

\* Equality of two names under case-insensitive comparison.
SameNameCI(s, t) ==
  /\ Len(s) = Len(t)
  /\ \A i \in 1..Len(s) : Lower(s[i]) = Lower(t[i])

----------------------------------------------------------------------------
(* new RegExp(`^${text}$`, 'i'): the text is spliced into the pattern      *)
(* unescaped, so "+" in it is the one-or-more quantifier.                  *)

IsQuantifier(c) == c = "+"

\* The RegExp constructor throws SyntaxError ("Nothing to repeat") when a
\* quantifier follows "^" or another quantifier.
RegExpThrows(text) ==
  \E i \in 1..Len(text) :
    /\ IsQuantifier(text[i])
    /\ (i = 1 \/ IsQuantifier(text[i - 1]))

\* The atoms of a pattern that compiled: each a character and whether "+" follows it.
RECURSIVE RegExpAtoms(_)
RegExpAtoms(text) ==
  IF text = <<>> THEN <<>>
  ELSE IF Len(text) >= 2 /\ IsQuantifier(text[2])
       THEN <<[ch |-> text[1], plus |-> TRUE]>> \o RegExpAtoms(SubSeq(text, 3, Len(text)))
       ELSE <<[ch |-> text[1], plus |-> FALSE]>> \o RegExpAtoms(Tail(text))

AtomMatchesChar(atom, c) == Lower(atom.ch) = Lower(c)

\* Does ^atoms$ (flag i) match the whole of target?
RECURSIVE AtomsMatch(_, _)
AtomsMatch(atoms, target) ==
  IF atoms = <<>> THEN target = <<>>
  ELSE IF ~Head(atoms).plus
       THEN /\ target # <<>>
            /\ AtomMatchesChar(Head(atoms), Head(target))
            /\ AtomsMatch(Tail(atoms), Tail(target))
       ELSE \E k \in 1..Len(target) :
              /\ \A j \in 1..k : AtomMatchesChar(Head(atoms), target[j])
              /\ AtomsMatch(Tail(atoms), SubSeq(target, k + 1, Len(target)))

\* { name: { $regex: new RegExp(`^${text}$`, 'i') } } evaluated on a stored name.
RegexMatches(text, stored) == AtomsMatch(RegExpAtoms(text), stored)

\* Product.findOne({ name: { $regex: ... } }): index of the first match, 0 for null.
FindOneByName(text, coll) ==
  IF \E i \in 1..Len(coll) : RegexMatches(text, coll[i].name)
  THEN CHOOSE i \in 1..Len(coll) :
         /\ RegexMatches(text, coll[i].name)
         /\ \A j \in 1..(i - 1) : ~RegexMatches(text, coll[j].name)
  ELSE 0

----------------------------------------------------------------------------
(* Number(text) and new Date(text) on the texts the inputs use *)

NaN == [nan |-> TRUE, val |-> 0]

Num(n) == [nan |-> FALSE, val |-> n]

\* Number(text): the empty string converts to 0, a non-numeric text to NaN.
JsNumber(text) ==
  CASE text = ""    -> Num(0)
    [] text = "0"   -> Num(0)
    [] text = "1"   -> Num(1)
    [] text = "2"   -> Num(2)
    [] text = "3"   -> Num(3)
    [] text = "5"   -> Num(5)
    [] OTHER        -> NaN

\* new Date(text).getTime() in ticks since the epoch; Invalid Date is NaN.
JsDate(text) ==
  CASE text = "2099-01-01" -> Num(47116 * TicksPerDay)
    [] text = "2099-02-01" -> Num(47147 * TicksPerDay)
    [] OTHER               -> NaN

IsNaN(x) == x.nan

----------------------------------------------------------------------------
(* Inputs: product names and CSV rows *)

\* Product names as they may appear in a CSV cell or a request body.
Names == { <<"a">>, <<"A", " ">>, <<"a", "+">>, <<"+">>, <<"b">> }

\* A well-formed row named n, as csv-parser emits it (every value a string).
ValidRow(n) ==
  [name |-> n, quantity |-> "5", weight |-> "", price |-> "2",
   expiryDate |-> "2099-01-01", notifyBeforeDays |-> "3"]

With(row, k, v) == [x \in DOMAIN row \cup {k} |-> IF x = k THEN v ELSE row[x]]

Without(row, k) == [x \in DOMAIN row \ {k} |-> row[x]]

\* Rows that exercise the duplicate check: every name, well-formed or with a bad quantity.
NameRows ==
  {ValidRow(n) : n \in Names}
    \cup {With(ValidRow(n), "quantity", "abc") : n \in {<<"a">>, <<"A", " ">>}}

\* Rows that exercise the validation: one name, one field varied at a time.
FieldRows ==
  LET r == ValidRow(<<"a">>) IN
  { r,
    With(r, "name", <<>>), Without(r, "name"),
    With(r, "quantity", ""), With(r, "quantity", "0"), With(r, "quantity", "abc"),
    With(r, "price", ""), Without(r, "price"),
    With(r, "expiryDate", "not-a-date"),
    With(r, "notifyBeforeDays", ""),
    With(r, "weight", "1"), With(r, "weight", "abc") }

SeqsUpTo(S, n) == UNION {[1..k -> S] : k \in 0..n}

\* The data rows of the uploaded files (a file with no data row parses to <<>>).
CsvFiles == SeqsUpTo(NameRows, MaxRows) \cup SeqsUpTo(FieldRows, MaxRows)

----------------------------------------------------------------------------
(* POST /products/upload-csv *)

Undefined(row, k) == k \notin DOMAIN row

\* !value for a destructured column: undefined or the empty string.
Falsy(row, k) == Undefined(row, k) \/ row[k] = (IF k = "name" THEN <<>> ELSE "")

MissingMsg == "Missing required fields (name, quantity, price, expiryDate, notifyBeforeDays)"
NumberMsg == "Invalid number format for quantity, price, or notifyBeforeDays"
WeightMsg == "Invalid number format for weight"
DateMsg == "Invalid date format for expiryDate (use YYYY-MM-DD)"
RegExpMsg == "Invalid regular expression: Nothing to repeat"
StoreMsg == "store operation failed"
ExistsMsg == "Product already exists"

\* The csv() 'data' handler: lineNumber starts at 1 and is incremented before each push.
ParseCsv(file) == [i \in 1..Len(file) |-> With(file[i], "lineNumber", i + 1)]

\* Line 417: the required-field test.
MissingRequired(row) ==
  \/ Falsy(row, "name")
  \/ Falsy(row, "quantity")
  \/ Undefined(row, "price")
  \/ Falsy(row, "expiryDate")
  \/ Falsy(row, "notifyBeforeDays")

\* Lines 427-432: Number() of the three required numeric columns.
BadNumber(row) ==
  \/ IsNaN(JsNumber(row.quantity))
  \/ IsNaN(JsNumber(row.price))
  \/ IsNaN(JsNumber(row.notifyBeforeDays))

\* Lines 428, 441: weight is converted only when truthy.
BadWeight(row) == ~Falsy(row, "weight") /\ IsNaN(JsNumber(row.weight))

\* Lines 451-452.
BadDate(row) == IsNaN(JsDate(row.expiryDate))

\* Mutant of RowError: the date is validated before the numbers.
RowErrorDateFirst(row) ==
  IF MissingRequired(row) THEN MissingMsg
  ELSE IF BadDate(row) THEN DateMsg
  ELSE IF BadNumber(row) THEN NumberMsg
  ELSE IF BadWeight(row) THEN WeightMsg
  ELSE IF RegExpThrows(Trim(row.name)) THEN RegExpMsg
  ELSE ""

\* The message of the first failing synchronous check of a row, "" when all pass.
\* The RegExp of line 463 is built after the checks and before findOne is called.
RowError(row) ==
  IF MissingRequired(row) THEN MissingMsg
  ELSE IF BadNumber(row) THEN NumberMsg
  ELSE IF BadWeight(row) THEN WeightMsg
  ELSE IF BadDate(row) THEN DateMsg
  ELSE IF RegExpThrows(Trim(row.name)) THEN RegExpMsg
  ELSE ""

\* Lines 476-485: the document passed to Product.create.
NewProduct(row) ==
  [name |-> Trim(row.name),
   quantity |-> JsNumber(row.quantity).val,
   price |-> JsNumber(row.price).val,
   expiryDate |-> JsDate(row.expiryDate).val,
   notifyBeforeDays |-> JsNumber(row.notifyBeforeDays).val]

ErrorEntry(row, msg) == [line |-> row.lineNumber, data |-> row, error |-> msg]

SkippedEntry(row) == [line |-> row.lineNumber, name |-> row.name, reason |-> ExistsMsg]

NoCalls == [findOne |-> 0, create |-> 0]

UploadIdle ==
  /\ upPc' = "idle" /\ results' = <<>> /\ rowIdx' = 0 /\ curName' = <<>>
  /\ errors' = <<>> /\ skipped' = <<>> /\ successfulProducts' = <<>>
  /\ upStatus' = 0 /\ upCalls' = NoCalls /\ upStart' = <<>> /\ reupload' = "no"

PostIdle == postPc' = "idle" /\ postBody' = <<>> /\ postStatus' = 0

\* The for-loop moves to the next row; after the last row the 200 report is sent.
NextRow ==
  /\ rowIdx' = rowIdx + 1
  /\ curName' = <<>>
  /\ IF rowIdx = Len(results)
     THEN upPc' = "done" /\ upStatus' = 200
     ELSE upPc' = "row" /\ upStatus' = upStatus

\* Mutant of RejectRow: the row is dropped without being recorded.
RejectRowUnrecorded(row, msg) ==
  /\ errors' = errors
  /\ NextRow

\* Lines 418-423 (and 433-438, 442-447, 453-458): errors.push({...}); continue.
RejectRow(row, msg) ==
  /\ errors' = Append(errors, ErrorEntry(row, msg))
  /\ NextRow

\* Mutant of CatchRow: the exception reaches the outer catch, which answers 500.
CatchRowRethrows(row, msg) ==
  /\ errors' = errors
  /\ upPc' = "done" /\ upStatus' = 500
  /\ rowIdx' = rowIdx /\ curName' = <<>>

\* Lines 489-495: the per-row catch records error.message and the loop goes on.
CatchRow(row, msg) ==
  /\ errors' = Append(errors, ErrorEntry(row, msg))
  /\ NextRow

\* Mutant of EmptyParse: the empty result is not refused.
EmptyParseNever(rows) == FALSE

\* Line 405: results.length === 0.
EmptyParse(rows) == Len(rows) = 0

\* Lines 380-409: the request arrives, the file is parsed, an empty result is refused.
BeginUpload(file, again) ==
  /\ app = "index"
  /\ results' = ParseCsv(file)
  /\ errors' = <<>> /\ skipped' = <<>> /\ successfulProducts' = <<>>
  /\ curName' = <<>>
  /\ upCalls' = NoCalls
  /\ upStart' = products
  /\ reupload' = again
  /\ IF EmptyParse(ParseCsv(file))
     THEN upPc' = "done" /\ upStatus' = 400 /\ rowIdx' = 0
     ELSE /\ rowIdx' = 1
          /\ IF Len(file) = 0
             THEN upPc' = "done" /\ upStatus' = 200
             ELSE upPc' = "row" /\ upStatus' = 0
  /\ UNCHANGED <<app, products>>
  /\ UNCHANGED <<postVars, regs, db, cronVars>>

UploadCsv ==
  \E file \in CsvFiles :
    /\ upPc = "idle"
    /\ Len(products) + Len(file) <= MaxProducts
    /\ BeginUpload(file, "no")

\* The same file is uploaded again right after its 200 report.
UploadSameCsvAgain ==
  /\ upPc = "done" /\ upStatus = 200
  /\ Len(products) + Len(results) <= MaxProducts
  /\ BeginUpload([i \in 1..Len(results) |-> Without(results[i], "lineNumber")],
                 IF \E i \in 1..Len(errors) : errors[i].error = StoreMsg
                 THEN "faulty" ELSE "clean")

\* Lines 413-464: the synchronous checks of one row, up to the call of findOne.
UploadValidateRow ==
  /\ upPc = "row"
  /\ LET row == results[rowIdx]
         msg == RowError(row) IN
       IF msg = RegExpMsg
       THEN CatchRow(row, msg) /\ UNCHANGED upCalls
       ELSE IF msg # ""
       THEN RejectRow(row, msg) /\ UNCHANGED upCalls
       ELSE /\ upPc' = "findOne"
            /\ curName' = Trim(row.name)
            /\ upCalls' = [upCalls EXCEPT !.findOne = @ + 1]
            /\ UNCHANGED <<errors, rowIdx, upStatus>>
  /\ UNCHANGED <<app, products, results, skipped, successfulProducts, upStart, reupload>>
  /\ UNCHANGED <<postVars, regs, db, cronVars>>

\* Lines 462-476: findOne settles; a match skips the row, otherwise create is called.
UploadFindOneReturns ==
  /\ upPc = "findOne"
  /\ LET row == results[rowIdx] IN
       \/ /\ CatchRow(row, StoreMsg)
          /\ UNCHANGED <<skipped, upCalls>>
       \/ /\ FindOneByName(curName, products) # 0
          /\ skipped' = Append(skipped, SkippedEntry(row))
          /\ NextRow
          /\ UNCHANGED <<errors, upCalls>>
       \/ /\ FindOneByName(curName, products) = 0
          /\ upPc' = "create"
          /\ upCalls' = [upCalls EXCEPT !.create = @ + 1]
          /\ UNCHANGED <<errors, skipped, rowIdx, curName, upStatus>>
  /\ UNCHANGED <<app, products, results, successfulProducts, upStart, reupload>>
  /\ UNCHANGED <<postVars, regs, db, cronVars>>

\* Lines 476-495: create settles; the new document is pushed to successfulProducts.
UploadCreateReturns ==
  /\ upPc = "create"
  /\ LET row == results[rowIdx] IN
       \/ /\ CatchRow(row, StoreMsg)
          /\ UNCHANGED <<products, successfulProducts>>
       \/ /\ products' = Append(products, NewProduct(row))
          /\ successfulProducts' = Append(successfulProducts, NewProduct(row))
          /\ NextRow
          /\ UNCHANGED errors
  /\ UNCHANGED <<app, results, skipped, upCalls, upStart, reupload>>
  /\ UNCHANGED <<postVars, regs, db, cronVars>>

\* The response is sent and the handler returns: its locals are gone.
UploadReturns ==
  /\ upPc = "done"
  /\ UploadIdle
  /\ UNCHANGED <<app, products>>
  /\ UNCHANGED <<postVars, regs, db, cronVars>>

----------------------------------------------------------------------------
(* POST /product *)

\* A well-formed JSON body named n (numbers are numbers, the date already a time).
ValidBody(n) ==
  [name |-> n, quantity |-> 5, price |-> 2, expiryDate |-> 47116 * TicksPerDay,
   notifyBeforeDays |-> 3]

PostBodies ==
  {ValidBody(n) : n \in Names}
    \cup {With(ValidBody(<<"b">>), "expiryDate", 2)}
    \cup {With(ValidBody(<<"a">>), "name", <<>>),
          With(ValidBody(<<"a">>), "quantity", 0),
          Without(ValidBody(<<"a">>), "price")}

\* Line 303 (server.js line 295): !name || !quantity || price === undefined || ...
BodyInvalid(body) ==
  \/ Undefined(body, "name") \/ body.name = <<>>
  \/ Undefined(body, "quantity") \/ body.quantity = 0
  \/ Undefined(body, "price")
  \/ Undefined(body, "expiryDate")
  \/ Undefined(body, "notifyBeforeDays") \/ body.notifyBeforeDays = 0

\* Lines 325-334: the document passed to Product.create (the name is not trimmed).
BodyProduct(body) ==
  [name |-> body.name, quantity |-> body.quantity, price |-> body.price,
   expiryDate |-> body.expiryDate, notifyBeforeDays |-> body.notifyBeforeDays]

\* part_003 lines 298-310: validation, then the RegExp is built and findOne called.
\* server.js lines 290-306: validation, then create is called with no lookup.
PostProduct ==
  \E body \in PostBodies :
    /\ postPc = "idle"
    /\ Len(products) < MaxProducts
    /\ postBody' = body
    /\ IF BodyInvalid(body) THEN postPc' = "done" /\ postStatus' = 400
       ELSE IF app = "server" THEN postPc' = "create" /\ postStatus' = 0
       ELSE IF RegExpThrows(body.name) THEN postPc' = "done" /\ postStatus' = 500
       ELSE postPc' = "findOne" /\ postStatus' = 0
    /\ UNCHANGED <<app, products>>
    /\ UNCHANGED <<upVars, regs, db, cronVars>>

\* part_003 lines 308-325: findOne settles; a match answers 409, otherwise create is called.
PostFindOneReturns ==
  /\ postPc = "findOne"
  /\ \/ postPc' = "done" /\ postStatus' = 500
     \/ /\ FindOneByName(postBody.name, products) # 0
        /\ postPc' = "done" /\ postStatus' = 409
     \/ /\ FindOneByName(postBody.name, products) = 0
        /\ postPc' = "create" /\ postStatus' = 0
  /\ UNCHANGED <<app, products, postBody>>
  /\ UNCHANGED <<upVars, regs, db, cronVars>>

\* Mutant of PostCreateReturns: the store refuses a name it already holds.
PostCreateReturnsUnique ==
  /\ postPc = "create"
  /\ \/ postPc' = "done" /\ postStatus' = 500 /\ UNCHANGED products
     \/ /\ \A k \in 1..Len(products) : ~SameNameCI(products[k].name, postBody.name)
        /\ products' = Append(products, BodyProduct(postBody))
        /\ postPc' = "done" /\ postStatus' = 201
  /\ UNCHANGED <<app, postBody>>
  /\ UNCHANGED <<upVars, regs, db, cronVars>>

\* part_003 lines 325-339, server.js lines 299-311: create settles.
PostCreateReturns ==
  /\ postPc = "create"
  /\ \/ postPc' = "done" /\ postStatus' = 500 /\ UNCHANGED products
     \/ /\ products' = Append(products, BodyProduct(postBody))
        /\ postPc' = "done" /\ postStatus' = 201
  /\ UNCHANGED <<app, postBody>>
  /\ UNCHANGED <<upVars, regs, db, cronVars>>

\* The response is sent and the handler returns.
PostReturns ==
  /\ postPc = "done"
  /\ PostIdle
  /\ UNCHANGED <<app, products>>
  /\ UNCHANGED <<upVars, regs, db, cronVars>>

----------------------------------------------------------------------------
(* POST /token: a device registers its FCM token *)

\* The connections on which POST /token requests arrive.
Connections == {"c1", "c2"}

NoRegistration == [pc |-> "idle", token |-> "", status |-> 0]

\* req.body.token: absent or empty (""), or a device token.
TokenBodies == {"", "t1", "t2", "t3"}

\* Mutant of FindOneUser: the lookup never finds the token.
FindOneUserNever(token, coll) == 0

\* User.findOne({ fcmToken: token }): the position of the first record holding
\* exactly this token, 0 for null.
FindOneUser(token, coll) ==
  IF \E k \in 1..Len(coll) : coll[k] = token
  THEN CHOOSE k \in 1..Len(coll) :
         coll[k] = token /\ \A j \in 1..(k - 1) : coll[j] # token
  ELSE 0

\* Mutant of DuplicateKey: the collection has no unique index.
DuplicateKeyNever(token, coll) == FALSE

\* The User schema declares fcmToken unique: the store rejects the insert of a
\* token that a record already holds.
DuplicateKey(token, coll) == \E k \in 1..Len(coll) : coll[k] = token

\* Lines 520-529: the request arrives; without a token it is answered 400,
\* otherwise User.findOne is called.
PostToken(c) ==
  \E token \in TokenBodies :
    /\ regs[c].pc = "idle"
    /\ Len(users) < MaxUsers \/ FindOneUser(token, users) # 0
    /\ regs' = [regs EXCEPT ![c] =
         IF token = ""
         THEN [pc |-> "done", token |-> token, status |-> 400]
         ELSE [pc |-> "findOne", token |-> token, status |-> 0]]
    /\ UNCHANGED <<app, products, upVars, postVars, db, cronVars>>

\* Lines 529-534: findOne settles; a stored token is acknowledged with 200,
\* otherwise User.create is called; a store failure is answered 500 (line 537).
TokenFindOneReturns(c) ==
  /\ regs[c].pc = "findOne"
  /\ \/ regs' = [regs EXCEPT ![c].pc = "done", ![c].status = 500]
     \/ /\ FindOneUser(regs[c].token, users) # 0
        /\ regs' = [regs EXCEPT ![c].pc = "done", ![c].status = 200]
     \/ /\ FindOneUser(regs[c].token, users) = 0
        /\ regs' = [regs EXCEPT ![c].pc = "create"]
  /\ UNCHANGED <<app, products, upVars, postVars, db, cronVars>>

\* Lines 534-537: create settles; the record is stored and 201 answered, or the
\* store call fails (always so for a duplicate key) and 500 is answered.
TokenCreateReturns(c) ==
  /\ regs[c].pc = "create"
  /\ \/ /\ regs' = [regs EXCEPT ![c].pc = "done", ![c].status = 500]
        /\ users' = users
     \/ /\ ~DuplicateKey(regs[c].token, users)
        /\ regs' = [regs EXCEPT ![c].pc = "done", ![c].status = 201]
        /\ users' = Append(users, regs[c].token)
  /\ UNCHANGED <<app, products, upVars, postVars, db, firebaseInitialized, now, runs>>

\* The response has been sent; the connection takes the next request.
TokenReturns(c) ==
  /\ regs[c].pc = "done"
  /\ regs' = [regs EXCEPT ![c] = NoRegistration]
  /\ UNCHANGED <<app, products, upVars, postVars, db, cronVars>>

----------------------------------------------------------------------------
(* connectDB and the checkDbConnection middleware (part_003 lines 70-118) *)

\* The requests that pass through checkDbConnection.
Requests == {"q1", "q2", "q3"}

NoCaller == [pc |-> "idle", awaits |-> 0]

\* Lines 70-74: cached = { conn: null, promise: null }.  promise is the number
\* of the attempt whose promise it holds, 0 for null.
NoConnection ==
  [conn |-> FALSE, promise |-> 0, attempts |-> <<>>,
   callers |-> [q \in Requests |-> NoCaller]]

\* Continuations of `await cached.promise` are queued as microtasks: they all
\* run before the next request is taken from the event loop.
MicrotasksPending == \E q \in Requests : db.callers[q].pc = "resumed"

\* Lines 76-95: a request enters checkDbConnection and calls connectDB, which
\* returns the cached connection, or starts an attempt when no promise is
\* cached and awaits the cached promise.
ConnectDBCalled(q) ==
  /\ db.callers[q].pc = "idle"
  /\ ~MicrotasksPending
  /\ IF db.conn
     THEN db' = [db EXCEPT !.callers[q].pc = "next"]
     ELSE IF db.promise = 0
     THEN /\ Len(db.attempts) < MaxAttempts
          /\ db' = [db EXCEPT !.attempts = Append(@, "pending"),
                              !.promise = Len(db.attempts) + 1,
                              !.callers[q] = [pc |-> "await", awaits |-> Len(db.attempts) + 1]]
     ELSE db' = [db EXCEPT !.callers[q] =
                   [pc |-> IF db.attempts[db.promise] = "pending" THEN "await" ELSE "resumed",
                    awaits |-> db.promise]]
  /\ UNCHANGED <<app, products, upVars, postVars, regs, cronVars>>

\* Lines 86-92: mongoose.connect settles; every caller awaiting this promise
\* is resumed.
ConnectSettles ==
  /\ ~MicrotasksPending
  /\ \E a \in 1..Len(db.attempts) : \E outcome \in {"resolved", "rejected"} :
       /\ db.attempts[a] = "pending"
       /\ db' = [db EXCEPT !.attempts[a] = outcome,
                           !.callers = [q \in Requests |->
                              IF db.callers[q].pc = "await" /\ db.callers[q].awaits = a
                              THEN [db.callers[q] EXCEPT !.pc = "resumed"]
                              ELSE db.callers[q]]]
  /\ UNCHANGED <<app, products, upVars, postVars, regs, cronVars>>

\* Mutant of ConnectDBResumes: the catch does not clear cached.promise.
ConnectDBResumesKeepsPromise(q) ==
  /\ db.callers[q].pc = "resumed"
  /\ IF db.attempts[db.callers[q].awaits] = "resolved"
     THEN db' = [db EXCEPT !.conn = TRUE, !.callers[q].pc = "next"]
     ELSE db' = [db EXCEPT !.callers[q].pc = "503"]
  /\ UNCHANGED <<app, products, upVars, postVars, regs, cronVars>>

\* Lines 95-102 and 108-117: the await returns and cached.conn is set, the
\* middleware calls next(); or the await throws, cached.promise is cleared,
\* the error is rethrown and the middleware answers 503.
ConnectDBResumes(q) ==
  /\ db.callers[q].pc = "resumed"
  /\ IF db.attempts[db.callers[q].awaits] = "resolved"
     THEN db' = [db EXCEPT !.conn = TRUE, !.callers[q].pc = "next"]
     ELSE db' = [db EXCEPT !.promise = 0, !.callers[q].pc = "503"]
  /\ UNCHANGED <<app, products, upVars, postVars, regs, cronVars>>

\* The request has been served; the next one may use its place.
RequestEnds(q) ==
  /\ db.callers[q].pc \in {"next", "503"}
  /\ db' = [db EXCEPT !.callers[q] = NoCaller]
  /\ UNCHANGED <<app, products, upVars, postVars, regs, cronVars>>

----------------------------------------------------------------------------
(* PUT /product/:id *)

\* Lines 343-357: Product.findByIdAndUpdate(req.params.id, {name, ...}) writes
\* the fields of the body over the record with that id (its position stands
\* for the id); no lookup by name precedes the write.
PutProduct ==
  \E k \in 1..Len(products) : \E body \in {ValidBody(n) : n \in Names} :
    /\ products' = [products EXCEPT ![k] = BodyProduct(body)]
    /\ UNCHANGED <<app, upVars, postVars, regs, db, cronVars>>

----------------------------------------------------------------------------
(* DELETE /product/:id *)

\* The sequence without its k-th element.
RemoveAt(seq, k) == SubSeq(seq, 1, k - 1) \o SubSeq(seq, k + 1, Len(seq))

\* Lines 364-371: Product.findByIdAndDelete(req.params.id) removes the record
\* with that id (its position stands for the id) and the handler answers.
DeleteProduct ==
  \E k \in 1..Len(products) :
    /\ products' = RemoveAt(products, k)
    /\ UNCHANGED <<app, upVars, postVars, regs, db, cronVars>>

----------------------------------------------------------------------------
(* The cron callback (part_000): cron.schedule("0 9 * * *", async () => ..) *)

\* The invocations of the callback that may be in progress.
Slots == {"run1"}

Armed ==
  [pc |-> "armed", products |-> <<>>, users |-> <<>>, today |-> 0,
   p |-> 0, u |-> 0, reads |-> 0, sent |-> <<>>, last |-> "none", firstFail |-> 0]

\* Line 17-18: (new Date(p.expiryDate) - today), kept in ticks; the code divides
\* it by the length of a day and compares the quotient, a real number.
DiffTicks(prod, today) == prod.expiryDate - today

\* Mutant of InWindow: the test diff > 0 is missing.
InWindowNoLowerBound(prod, today) ==
  DiffTicks(prod, today) <= prod.notifyBeforeDays * TicksPerDay

\* Line 20: diff <= p.notifyBeforeDays && diff > 0, with diff = DiffTicks / TicksPerDay.
InWindow(prod, today) ==
  /\ DiffTicks(prod, today) <= prod.notifyBeforeDays * TicksPerDay
  /\ DiffTicks(prod, today) > 0

\* Mutant of CeilDays: Math.floor in place of Math.ceil.
FloorDays(prod, today) == DiffTicks(prod, today) \div TicksPerDay

\* Line 27: Math.ceil(diff) for a positive diff.
CeilDays(prod, today) == (DiffTicks(prod, today) + TicksPerDay - 1) \div TicksPerDay

\* Mutant of CronTrigger: a trigger is dropped while another invocation runs.
CronTriggerSkipIfRunning(i) ==
  /\ runs[i].pc = "armed"
  /\ \A j \in DOMAIN runs : runs[j].pc = "armed"
  /\ runs' = [runs EXCEPT ![i] =
       IF ~firebaseInitialized
       THEN [Armed EXCEPT !.pc = "skipped"]
       ELSE [Armed EXCEPT !.pc = "findProducts", !.reads = 1]]
  /\ UNCHANGED <<app, products, upVars, postVars, regs, db, users, firebaseInitialized, now>>

\* Mutant of CronTrigger: the firebaseInitialized guard is missing.
CronTriggerUnguarded(i) ==
  /\ runs[i].pc = "armed"
  /\ runs' = [runs EXCEPT ![i] = [Armed EXCEPT !.pc = "findProducts", !.reads = 1]]
  /\ UNCHANGED <<app, products, upVars, postVars, regs, db, users, firebaseInitialized, now>>

\* Lines 6-12: the schedule fires; without Firebase the callback logs and returns,
\* otherwise it calls Product.find().
CronTrigger(i) ==
  /\ runs[i].pc = "armed"
  /\ runs' = [runs EXCEPT ![i] =
       IF ~firebaseInitialized
       THEN [Armed EXCEPT !.pc = "skipped"]
       ELSE [Armed EXCEPT !.pc = "findProducts", !.reads = 1]]
  /\ UNCHANGED <<app, products, upVars, postVars, regs, db, users, firebaseInitialized, now>>

\* Lines 12-13: Product.find() settles (a rejection escapes the callback);
\* then User.find() is called.
CronFindProductsReturns(i) ==
  /\ runs[i].pc = "findProducts"
  /\ \/ runs' = [runs EXCEPT ![i].pc = "failed"]
     \/ runs' = [runs EXCEPT ![i].pc = "findUsers", ![i].products = products,
                             ![i].reads = @ + 1]
  /\ UNCHANGED <<app, products, upVars, postVars, regs, db, users, firebaseInitialized, now>>

\* Lines 13-16: User.find() settles; today is read once and the scan starts.
CronFindUsersReturns(i) ==
  /\ runs[i].pc = "findUsers"
  /\ \/ runs' = [runs EXCEPT ![i].pc = "failed"]
     \/ runs' = [runs EXCEPT ![i].pc = "loop", ![i].users = users, ![i].today = now,
                             ![i].p = 1, ![i].u = 1]
  /\ UNCHANGED <<app, products, upVars, postVars, regs, db, users, firebaseInitialized, now>>

\* Mutant of Dispatch: the devices are taken in reverse order.
DispatchReversed(r) ==
  [product |-> r.p,
   name |-> r.products[r.p].name,
   token |-> r.users[Len(r.users) + 1 - r.u],
   days |-> CeilDays(r.products[r.p], r.today)]

\* The attempt send({token, notification}) of lines 23-29, as the transport sees it.
Dispatch(r) ==
  [product |-> r.p,
   name |-> r.products[r.p].name,
   token |-> r.users[r.u],
   days |-> CeilDays(r.products[r.p], r.today)]

\* Mutant of CronLoop: the clock is read again for every product.
CronLoopRereadsClock(i) ==
  /\ runs[i].pc = "loop"
  /\ LET r == runs[i] IN
       IF r.p > Len(r.products)
       THEN runs' = [runs EXCEPT ![i].pc = "done"]
       ELSE IF InWindow(r.products[r.p], now) /\ r.u <= Len(r.users)
       THEN runs' = [runs EXCEPT ![i].pc = "send", ![i].sent = Append(@, Dispatch(r)),
                                 ![i].last = "pending"]
       ELSE runs' = [runs EXCEPT ![i].p = @ + 1, ![i].u = 1]
  /\ UNCHANGED <<app, products, upVars, postVars, regs, db, users, firebaseInitialized, now>>

\* Lines 16-29: the loops run on to the next send, or to the end of the scan.
CronLoop(i) ==
  /\ runs[i].pc = "loop"
  /\ LET r == runs[i] IN
       IF r.p > Len(r.products)
       THEN runs' = [runs EXCEPT ![i].pc = "done"]
       ELSE IF InWindow(r.products[r.p], r.today) /\ r.u <= Len(r.users)
       THEN runs' = [runs EXCEPT ![i].pc = "send", ![i].sent = Append(@, Dispatch(r)),
                                 ![i].last = "pending"]
       ELSE runs' = [runs EXCEPT ![i].p = @ + 1, ![i].u = 1]
  /\ UNCHANGED <<app, products, upVars, postVars, regs, db, users, firebaseInitialized, now>>

\* 1 once the first dispatch of the invocation has failed (0: it has not).
FirstFail(r, outcome) ==
  IF outcome = "failed" /\ Len(r.sent) = 1 THEN 1 ELSE r.firstFail

\* Mutant of CronSendSettles: the device after the one just served is skipped.
CronSendSettlesSkipsDevice(i) ==
  /\ runs[i].pc = "send"
  /\ \E outcome \in {"sent", "failed"} :
       runs' = [runs EXCEPT ![i].pc = "loop", ![i].u = @ + 2, ![i].last = outcome,
                            ![i].firstFail = FirstFail(runs[i], outcome)]
  /\ UNCHANGED <<app, products, upVars, postVars, regs, db, users, firebaseInitialized, now>>

\* Mutant of CronSendSettles: the device collection is read again after each send.
CronSendSettlesReloadsDevices(i) ==
  /\ runs[i].pc = "send"
  /\ \E outcome \in {"sent", "failed"} :
       runs' = [runs EXCEPT ![i].pc = "loop", ![i].u = @ + 1, ![i].last = outcome,
                            ![i].firstFail = FirstFail(runs[i], outcome),
                            ![i].users = users]
  /\ UNCHANGED <<app, products, upVars, postVars, regs, db, users, firebaseInitialized, now>>

\* Mutant of CronSendSettles: a rejected send is not caught and ends the invocation.
CronSendSettlesUncaught(i) ==
  /\ runs[i].pc = "send"
  /\ \E outcome \in {"sent", "failed"} :
       runs' = [runs EXCEPT ![i].pc = IF outcome = "failed" THEN "failed" ELSE "loop",
                            ![i].u = @ + 1, ![i].last = outcome,
                            ![i].firstFail = FirstFail(runs[i], outcome)]
  /\ UNCHANGED <<app, products, upVars, postVars, regs, db, users, firebaseInitialized, now>>

\* Lines 23-32: the send settles; a rejection is caught and logged; next device.
CronSendSettles(i) ==
  /\ runs[i].pc = "send"
  /\ \E outcome \in {"sent", "failed"} :
       runs' = [runs EXCEPT ![i].pc = "loop", ![i].u = @ + 1, ![i].last = outcome,
                            ![i].firstFail = FirstFail(runs[i], outcome)]
  /\ UNCHANGED <<app, products, upVars, postVars, regs, db, users, firebaseInitialized, now>>

\* Mutant of CronReturns: a rejected callback is not swallowed and the schedule
\* never comes back from it.
CronReturnsUnlessFailed(i) ==
  /\ runs[i].pc \in {"done", "skipped"}
  /\ runs' = [runs EXCEPT ![i] = Armed]
  /\ UNCHANGED <<app, products, upVars, postVars, regs, db, users, firebaseInitialized, now>>

\* The callback's promise settles; node-cron keeps the schedule.
CronReturns(i) ==
  /\ runs[i].pc \in {"done", "failed", "skipped"}
  /\ runs' = [runs EXCEPT ![i] = Armed]
  /\ UNCHANGED <<app, products, upVars, postVars, regs, db, users, firebaseInitialized, now>>

\* Time passes.
Tick ==
  /\ now < MaxTime
  /\ now' = now + 1
  /\ UNCHANGED <<app, products, upVars, postVars, regs, db, users, firebaseInitialized, runs>>

----------------------------------------------------------------------------
(* Specification: requests that do not overlap *)

Init ==
  /\ app \in {"index", "server"}
  /\ products = <<>>
  /\ upPc = "idle" /\ results = <<>> /\ rowIdx = 0 /\ curName = <<>>
  /\ errors = <<>> /\ skipped = <<>> /\ successfulProducts = <<>>
  /\ upStatus = 0 /\ upCalls = NoCalls /\ upStart = <<>> /\ reupload = "no"
  /\ postPc = "idle" /\ postBody = <<>> /\ postStatus = 0
  /\ regs = [c \in Connections |-> NoRegistration]
  /\ db = NoConnection
  /\ users = <<>> /\ firebaseInitialized = FALSE /\ now = 0
  /\ runs = [i \in Slots |-> Armed]

\* No request is in flight.
Quiet == upPc \in {"idle", "done"} /\ postPc = "idle"

Next ==
  \/ Quiet /\ UploadCsv
  \/ Quiet /\ UploadSameCsvAgain
  \/ UploadValidateRow
  \/ UploadFindOneReturns
  \/ UploadCreateReturns
  \/ UploadReturns
  \/ upPc = "idle" /\ PostProduct
  \/ PostFindOneReturns
  \/ PostCreateReturns
  \/ PostReturns

Spec == Init /\ [][Next]_vars

----------------------------------------------------------------------------
(* Specification: the cron job over a populated store *)

\* Products a scan may meet: the k-th is named after its position.
ScanProduct(nm, e, n) ==
  [name |-> nm, quantity |-> 5, price |-> 2, expiryDate |-> e, notifyBeforeDays |-> n]

ScanNames == <<(<<"a">>), (<<"b">>), (<<"a", "+">>)>>

\* Expiry times (ticks) and notifyBeforeDays of the products a scan may meet.
ExpiryTicks == 1..4

NotifyDays == 0..2

ScanStores ==
  UNION { { [k \in 1..len |-> ScanProduct(ScanNames[((k - 1) % 3) + 1], e[k], n[k])] :
              e \in [1..len -> ExpiryTicks], n \in [1..len -> NotifyDays] } :
          len \in 0..MaxScan }

\* The registered devices: the first k of the tokens t1, t2, ...
Tokens == <<"t1", "t2", "t3", "t4">>

UserStores == { SubSeq(Tokens, 1, k) : k \in 0..MaxUsers }

InitCron ==
  /\ app = "index"
  /\ products \in ScanStores
  /\ upPc = "idle" /\ results = <<>> /\ rowIdx = 0 /\ curName = <<>>
  /\ errors = <<>> /\ skipped = <<>> /\ successfulProducts = <<>>
  /\ upStatus = 0 /\ upCalls = NoCalls /\ upStart = <<>> /\ reupload = "no"
  /\ postPc = "idle" /\ postBody = <<>> /\ postStatus = 0
  /\ regs = [c \in Connections |-> NoRegistration]
  /\ db = NoConnection
  /\ users \in UserStores
  /\ firebaseInitialized \in BOOLEAN
  /\ now = 0
  /\ runs = [i \in Slots |-> Armed]

NextCron ==
  \/ \E i \in Slots : CronTrigger(i)
  \/ \E i \in Slots : CronFindProductsReturns(i)
  \/ \E i \in Slots : CronFindUsersReturns(i)
  \/ \E i \in Slots : CronLoop(i)
  \/ \E i \in Slots : CronSendSettles(i)
  \/ \E i \in Slots : CronReturns(i)
  \/ Tick

SpecCron == InitCron /\ [][NextCron]_vars

----------------------------------------------------------------------------
(* Specification: a trigger that fires while an invocation is running *)

\* Two invocations of the callback may be in progress.
OverlapSlots == {"run1", "run2"}

\* Stores whose products share one notice period and one expiry time.
OverlapStores ==
  { s \in ScanStores :
      \A k \in 1..Len(s) : s[k].notifyBeforeDays = 1 /\ s[k].expiryDate = 2 }

InitOverlap ==
  /\ app = "index"
  /\ products \in OverlapStores
  /\ upPc = "idle" /\ results = <<>> /\ rowIdx = 0 /\ curName = <<>>
  /\ errors = <<>> /\ skipped = <<>> /\ successfulProducts = <<>>
  /\ upStatus = 0 /\ upCalls = NoCalls /\ upStart = <<>> /\ reupload = "no"
  /\ postPc = "idle" /\ postBody = <<>> /\ postStatus = 0
  /\ regs = [c \in Connections |-> NoRegistration]
  /\ db = NoConnection
  /\ users \in UserStores
  /\ firebaseInitialized = TRUE
  /\ now = 0
  /\ runs = [i \in OverlapSlots |-> Armed]

NextOverlap ==
  \/ \E i \in OverlapSlots : CronTrigger(i)
  \/ \E i \in OverlapSlots : CronFindProductsReturns(i)
  \/ \E i \in OverlapSlots : CronFindUsersReturns(i)
  \/ \E i \in OverlapSlots : CronLoop(i)
  \/ \E i \in OverlapSlots : CronSendSettles(i)
  \/ \E i \in OverlapSlots : CronReturns(i)
  \/ Tick

SpecOverlap == InitOverlap /\ [][NextOverlap]_vars

----------------------------------------------------------------------------
(* Specification: the cron job when every awaited call settles *)

InitCronFair == InitCron /\ products \in OverlapStores

\* The awaited store reads and sends settle, the loop runs on, and the job
\* framework takes the schedule back when the callback's promise has settled.
\* Nothing forces a trigger or the passing of time.
FairCron ==
  \A i \in Slots :
    /\ WF_vars(CronFindProductsReturns(i))
    /\ WF_vars(CronFindUsersReturns(i))
    /\ WF_vars(CronLoop(i))
    /\ WF_vars(CronSendSettles(i))
    /\ WF_vars(CronReturns(i))

SpecCronFair == InitCronFair /\ [][NextCron]_vars /\ FairCron

----------------------------------------------------------------------------
(* Specification: uploads of rows that fail several checks at once *)

\* Rows named like the product "a" (one of them up to case and padding) that
\* fail two of the checks of lines 417-458, and the valid row that creates "a".
OrderRows ==
  LET r == ValidRow(<<"a">>) IN
  { r,
    Without(With(r, "price", "abc"), "expiryDate"),
    With(With(r, "notifyBeforeDays", ""), "expiryDate", "not-a-date"),
    With(With(r, "quantity", "abc"), "expiryDate", "not-a-date"),
    With(With(r, "quantity", "abc"), "weight", "abc"),
    With(With(r, "weight", "abc"), "expiryDate", "not-a-date"),
    With(ValidRow(<<"A", " ">>), "expiryDate", "not-a-date") }

UploadOrderCsv ==
  \E file \in SeqsUpTo(OrderRows, MaxRows) :
    /\ upPc = "idle"
    /\ Len(products) + Len(file) <= MaxProducts
    /\ BeginUpload(file, "no")

InitOrder == Init /\ app = "index"

NextOrder ==
  \/ UploadOrderCsv
  \/ UploadValidateRow
  \/ UploadFindOneReturns
  \/ UploadCreateReturns
  \/ UploadReturns

SpecOrder == InitOrder /\ [][NextOrder]_vars

----------------------------------------------------------------------------
(* Specification: an upload and a POST /product that overlap *)

\* Valid rows that carry one name, up to case and padding, free of RegExp
\* metacharacters.
RaceRows == {ValidRow(n) : n \in {<<"a">>, <<"A", " ">>}}

UploadRaceCsv ==
  \E file \in SeqsUpTo(RaceRows, MaxRows) :
    /\ upPc = "idle"
    /\ Len(products) + Len(file) <= MaxProducts
    /\ BeginUpload(file, "no")

\* Each handler runs on whenever its awaited store call has settled; nothing
\* orders the steps of one request against those of the other.
NextRace ==
  \/ UploadRaceCsv
  \/ UploadValidateRow
  \/ UploadFindOneReturns
  \/ UploadCreateReturns
  \/ UploadReturns
  \/ PostProduct
  \/ PostFindOneReturns
  \/ PostCreateReturns
  \/ PostReturns

SpecRace == InitOrder /\ [][NextRace]_vars

----------------------------------------------------------------------------
(* Specification: device registrations that do not overlap *)

\* No registration is in progress on any connection.
NoRegistrations == \A c \in Connections : regs[c].pc = "idle"

NextToken ==
  \/ \E c \in Connections : NoRegistrations /\ PostToken(c)
  \/ \E c \in Connections : TokenFindOneReturns(c)
  \/ \E c \in Connections : TokenCreateReturns(c)
  \/ \E c \in Connections : TokenReturns(c)

SpecToken == InitOrder /\ [][NextToken]_vars

----------------------------------------------------------------------------
(* Specification: device registrations that overlap *)

NextTokenRace ==
  \/ \E c \in Connections : PostToken(c)
  \/ \E c \in Connections : TokenFindOneReturns(c)
  \/ \E c \in Connections : TokenCreateReturns(c)
  \/ \E c \in Connections : TokenReturns(c)

SpecTokenRace == InitOrder /\ [][NextTokenRace]_vars

----------------------------------------------------------------------------
(* Specification: the store changes while an invocation is running *)

InitSnapshot == InitCronFair /\ firebaseInitialized

\* An invocation has loaded the collections and is scanning them.
Scanning == \E i \in Slots : runs[i].pc \in {"loop", "send"}

\* Since the scanning invocation loaded the collections no product has been
\* created, no product has been deleted, no device has been registered.
NoneCreated ==
  \A i \in Slots : \A k \in 1..Len(products) :
    \E j \in 1..Len(runs[i].products) : runs[i].products[j] = products[k]

NoneDeleted ==
  \A i \in Slots : \A j \in 1..Len(runs[i].products) :
    \E k \in 1..Len(products) : runs[i].products[j] = products[k]

NoneRegistered == \A i \in Slots : users = runs[i].users

\* One invocation; while it scans, at most one product is created, one is
\* deleted and one device is registered, one request at a time.
NextSnapshot ==
  \/ \E i \in Slots : CronTrigger(i)
  \/ \E i \in Slots : CronFindProductsReturns(i)
  \/ \E i \in Slots : CronFindUsersReturns(i)
  \/ \E i \in Slots : CronLoop(i)
  \/ \E i \in Slots : CronSendSettles(i)
  \/ Scanning /\ NoneCreated /\ NoRegistrations /\ PostProduct
  \/ PostFindOneReturns
  \/ PostCreateReturns
  \/ PostReturns
  \/ Scanning /\ NoneDeleted /\ postPc = "idle" /\ NoRegistrations /\ DeleteProduct
  \/ \E c \in Connections :
       Scanning /\ NoneRegistered /\ postPc = "idle" /\ NoRegistrations /\ PostToken(c)
  \/ \E c \in Connections : TokenFindOneReturns(c)
  \/ \E c \in Connections : TokenCreateReturns(c)
  \/ \E c \in Connections : TokenReturns(c)

SpecSnapshot == InitSnapshot /\ [][NextSnapshot]_vars

----------------------------------------------------------------------------
(* Specification: products are created and updated, one request at a time *)

NextUpdate ==
  \/ PostProduct
  \/ PostFindOneReturns
  \/ PostCreateReturns
  \/ PostReturns
  \/ postPc = "idle" /\ PutProduct

SpecUpdate == InitOrder /\ [][NextUpdate]_vars

----------------------------------------------------------------------------
(* Specification: requests that call connectDB *)

NextConnect ==
  \/ \E q \in Requests : ConnectDBCalled(q)
  \/ ConnectSettles
  \/ \E q \in Requests : ConnectDBResumes(q)
  \/ \E q \in Requests : RequestEnds(q)

SpecConnect == InitOrder /\ [][NextConnect]_vars

----------------------------------------------------------------------------
(* Vocabulary of the properties *)

\* The row loop of an upload is running.
Processing == upPc \in {"row", "findOne", "create"}

\* The upload has answered 200 with its summary report.
Reported == upPc = "done" /\ upStatus = 200

Lines(list) == {list[i].line : i \in 1..Len(list)}

RowLines == {results[i].lineNumber : i \in 1..Len(results)}

\* A store call of the upload failed (its message is in the report).
StoreFailureReported == \E i \in 1..Len(errors) : errors[i].error = StoreMsg

\* This step recorded a store failure against the current row.
StoreFailsNow ==
  /\ Len(errors') = Len(errors) + 1
  /\ errors'[Len(errors')].error = StoreMsg

\* Some product of the collection has this name under case-insensitive comparison.
NameInStore(n, coll) == \E i \in 1..Len(coll) : SameNameCI(n, coll[i].name)

\* The row passes the field, numeric and date validation.
PassesValidation(row) == RowError(row) \in {"", RegExpMsg}

\* One of the five required columns is absent or empty.
RequiredAbsentOrEmpty(row) ==
  \E k \in {"name", "quantity", "price", "expiryDate", "notifyBeforeDays"} : Falsy(row, k)

----------------------------------------------------------------------------
(* C1: the report accounts for every parsed row exactly once: total =     *)
(* |successful| + |errors| + |skipped| when the report is sent, the three  *)
(* lists hold exactly the rows already processed while the loop runs, and  *)
(* no line is listed twice.                                                *)
C1_Accounting ==
  LET listed == Len(successfulProducts) + Len(errors) + Len(skipped) IN
  /\ Reported => Len(results) = listed
  /\ Processing => rowIdx - 1 = listed
  /\ upPc # "idle" =>
       /\ Lines(errors) \cup Lines(skipped) \subseteq RowLines
       /\ Cardinality(Lines(errors) \cup Lines(skipped)) = Len(errors) + Len(skipped)

\* A report of a batch that mixes a store-failing row and a duplicate row.
C1_Witness ==
  /\ Reported
  /\ Len(results) = 2
  /\ StoreFailureReported
  /\ Len(skipped) = 1

(* C2: in an upload with no concurrent writer, a row that passes           *)
(* validation and whose trimmed name equals no stored name                 *)
(* case-insensitively goes to findOne, then to create, and create appends  *)
(* exactly one product with the trimmed name, listed under successful      *)
(* (unless the store call itself fails).                                   *)
C2_Step ==
  /\ (upPc = "row" /\ PassesValidation(results[rowIdx])
        /\ ~NameInStore(Trim(results[rowIdx].name), products))
       => upPc' = "findOne"
  /\ (upPc = "findOne" /\ ~NameInStore(curName, products))
       => (upPc' = "create" \/ StoreFailsNow)
  /\ upPc = "create"
       => \/ StoreFailsNow
          \/ /\ products' = Append(products, NewProduct(results[rowIdx]))
             /\ products'[Len(products')].name = curName
             /\ successfulProducts' = Append(successfulProducts, NewProduct(results[rowIdx]))

C2_ValidNewRowIsCreated == [][C2_Step]_vars

(* C3: in an upload, a row that passes validation and whose trimmed name   *)
(* equals a stored name case-insensitively is listed under skipped with    *)
(* its line, its name and the already-exists reason, and creates nothing   *)
(* (unless the store call itself fails).                                   *)
C3_Step ==
  /\ (upPc = "row" /\ PassesValidation(results[rowIdx])
        /\ NameInStore(Trim(results[rowIdx].name), products))
       => upPc' = "findOne"
  /\ (upPc = "findOne" /\ NameInStore(curName, products))
       => \/ StoreFailsNow
          \/ /\ skipped' = Append(skipped, SkippedEntry(results[rowIdx]))
             /\ products' = products
             /\ successfulProducts' = successfulProducts

C3_DuplicateRowIsSkipped == [][C3_Step]_vars

(* C4: every row of a reported batch in which name, quantity, price,       *)
(* expiryDate or notifyBeforeDays is absent or empty is listed under       *)
(* errors (and so not under successful).                                   *)
C4_MissingFieldIsError ==
  Reported =>
    \A i \in 1..Len(results) :
      RequiredAbsentOrEmpty(results[i]) => results[i].lineNumber \in Lines(errors)

(* C5: uploading the same CSV again, with no write in between and no store *)
(* failure in either upload, creates nothing: zero successful, the store   *)
(* unchanged, and every row that is not listed under errors is skipped.    *)
C5_ReuploadIsIdempotent ==
  (reupload = "clean" /\ Reported /\ ~StoreFailureReported) =>
    /\ successfulProducts = <<>>
    /\ products = upStart
    /\ RowLines \ Lines(errors) \subseteq Lines(skipped)

(* C6: with the write-time duplicate check deployed and requests that do   *)
(* not overlap, no two products share a name case-insensitively.           *)
C6_UniqueNames ==
  app = "index" =>
    \A i, j \in 1..Len(products) :
      i < j => ~SameNameCI(products[i].name, products[j].name)

(* C7: of several valid rows of one batch that carry the same name         *)
(* (case-insensitively, after trim), a name the store did not hold         *)
(* beforehand, the first is created and listed under successful and every  *)
(* later one is listed under skipped (no store failure in the batch).      *)
C7_FirstOfBatchWins ==
  (Reported /\ ~StoreFailureReported) =>
    \A i, j \in 1..Len(results) :
      LET ni == Trim(results[i].name)
          nj == Trim(results[j].name) IN
      ( /\ i < j
        /\ PassesValidation(results[i]) /\ PassesValidation(results[j])
        /\ SameNameCI(ni, nj)
        /\ ~NameInStore(ni, upStart)
        /\ \A k \in 1..(i - 1) :
             ~(PassesValidation(results[k]) /\ SameNameCI(Trim(results[k].name), ni)) )
      => /\ \E d \in 1..Len(successfulProducts) : successfulProducts[d].name = ni
         /\ results[j].lineNumber \in Lines(skipped)

(* C8: no per-row failure aborts the batch.  A step that records a failure *)
(* (validation, duplicate, RegExp or store exception) appends exactly one  *)
(* entry carrying the current row's line, changes neither the store nor    *)
(* the successful list, and moves the loop to the next row; the loop never *)
(* leaves a row otherwise than to the next one; while rows remain a step   *)
(* of the loop is always possible; and a non-empty batch answers 200 only  *)
(* after its last row, never another status.                               *)
C8_Step ==
  Processing =>
    /\ results' = results
    /\ rowIdx' \in {rowIdx, rowIdx + 1}
    /\ upPc' \in {"row", "findOne", "create", "done"}
    /\ (upPc' = "done") = (rowIdx' = Len(results) + 1)
    /\ (errors' # errors \/ skipped' # skipped) =>
         /\ \/ /\ Len(errors') = Len(errors) + 1
               /\ errors' = Append(errors, errors'[Len(errors')])
               /\ errors'[Len(errors')].line = results[rowIdx].lineNumber
               /\ skipped' = skipped
            \/ /\ Len(skipped') = Len(skipped) + 1
               /\ skipped' = Append(skipped, skipped'[Len(skipped')])
               /\ skipped'[Len(skipped')].line = results[rowIdx].lineNumber
               /\ errors' = errors
         /\ products' = products
         /\ successfulProducts' = successfulProducts
         /\ rowIdx' = rowIdx + 1
         /\ rowIdx < Len(results) => upPc' = "row" /\ upStatus' = 0

C8_Done ==
  (upPc = "done" /\ results # <<>>) => (upStatus = 200 /\ rowIdx = Len(results) + 1)

C8_Progress ==
  Processing => ENABLED (UploadValidateRow \/ UploadFindOneReturns \/ UploadCreateReturns)

C8_NoRowAbortsBatch == []C8_Done /\ []C8_Progress /\ [][C8_Step]_vars

\* A 200 report in which every row failed, one of them by a store exception.
C8_Witness ==
  /\ Reported
  /\ Len(results) = 2
  /\ Len(errors) = 2
  /\ errors[1].error = StoreMsg
  /\ products = upStart

(* C9: an upload that parses to zero rows is answered 400 at once: no      *)
(* findOne and no create is issued, nothing is listed, and the store is    *)
(* as it was when the request arrived.                                     *)
C9_EmptyUploadRejected ==
  (upPc # "idle" /\ results = <<>>) =>
    /\ upPc = "done"
    /\ upStatus = 400
    /\ upCalls = NoCalls
    /\ errors = <<>> /\ skipped = <<>> /\ successfulProducts = <<>>
    /\ products = upStart

\* An empty upload refused while the store already holds products.
C9_Witness ==
  /\ upPc = "done" /\ results = <<>> /\ upStatus = 400
  /\ Len(products) > 0

----------------------------------------------------------------------------
(* Vocabulary of the scheduler properties *)

\* 0 < daysRemaining <= notifyBeforeDays, daysRemaining = (expiryDate - t) in days.
Eligible(prod, t) ==
  LET remaining == prod.expiryDate - t IN
  /\ 0 < remaining
  /\ remaining <= prod.notifyBeforeDays * TicksPerDay

\* The invocation r has finished with the k-th product of its scan.
Scanned(r, k) ==
  \/ r.pc = "done"
  \/ r.pc \in {"loop", "send"} /\ k < r.p

\* The invocation r has attempted a dispatch for its k-th product to the token.
Attempted(r, k, token) ==
  \E d \in 1..Len(r.sent) : r.sent[d].product = k /\ r.sent[d].token = token

(* C10: in an invocation a product is notified if and only if              *)
(* 0 < daysRemaining <= notifyBeforeDays at the instant the invocation     *)
(* read the clock: every dispatch attempt is for such a product, every     *)
(* such product, once scanned, has had an attempt for every device, and a  *)
(* product with daysRemaining <= 0 or daysRemaining > notifyBeforeDays has *)
(* none.                                                                   *)
C10_EligibleIffNotified ==
  \A i \in Slots :
    LET r == runs[i] IN
    /\ \A d \in 1..Len(r.sent) : Eligible(r.products[r.sent[d].product], r.today)
    /\ \A k \in 1..Len(r.products) :
         (Scanned(r, k) /\ Eligible(r.products[k], r.today))
           => \A u \in 1..Len(r.users) : Attempted(r, k, r.users[u])
    /\ \A k \in 1..Len(r.products) :
         (r.products[k].expiryDate - r.today <= 0
            \/ r.products[k].expiryDate - r.today > r.products[k].notifyBeforeDays * TicksPerDay)
           => \A u \in 1..Len(r.users) : ~Attempted(r, k, r.users[u])

\* A finished scan of an expired product with the largest window and of a
\* product exactly notifyBeforeDays away; only the latter was notified.
C10_Witness ==
  \E i \in Slots :
    LET r == runs[i] IN
    /\ r.pc = "done"
    /\ Len(r.products) = 2 /\ Len(r.users) = 2
    /\ r.products[1].expiryDate - r.today <= 0
    /\ r.products[1].notifyBeforeDays = 2
    /\ r.products[2].expiryDate - r.today = r.products[2].notifyBeforeDays * TicksPerDay
    /\ r.products[2].notifyBeforeDays > 0
    /\ Len(r.sent) = 2
    /\ \A d \in 1..2 : r.sent[d].product = 2

\* The products of the invocation r that are eligible at its instant.
EligibleProducts(r) == {k \in 1..Len(r.products) : Eligible(r.products[k], r.today)}

\* The position of a token in the device collection the invocation loaded (0: absent).
DeviceIndex(r, token) ==
  IF \E u \in 1..Len(r.users) : r.users[u] = token
  THEN CHOOSE u \in 1..Len(r.users) : r.users[u] = token
  ELSE 0

\* The number of dispatch attempts of r for its k-th product to the token.
Attempts(r, k, token) ==
  Cardinality({d \in 1..Len(r.sent) : r.sent[d].product = k /\ r.sent[d].token = token})

(* C11: with the transport initialized, an invocation makes exactly one    *)
(* dispatch attempt per (eligible product, device) pair and none for any   *)
(* other pair: never two for one pair while it runs, and when it is done   *)
(* the attempts number (eligible products) x (devices).                    *)
C11_OneAttemptPerPair ==
  \A i \in Slots :
    LET r == runs[i] IN
    /\ \A d \in 1..Len(r.sent) :
         /\ r.sent[d].product \in EligibleProducts(r)
         /\ DeviceIndex(r, r.sent[d].token) # 0
         /\ Attempts(r, r.sent[d].product, r.sent[d].token) = 1
    /\ r.pc = "done" =>
         /\ \A k \in EligibleProducts(r) : \A u \in 1..Len(r.users) :
              Attempts(r, k, r.users[u]) = 1
         /\ Len(r.sent) = Cardinality(EligibleProducts(r)) * Len(r.users)

\* Two eligible products and two devices: four attempts.
C11_Witness ==
  \E i \in Slots :
    LET r == runs[i] IN
    /\ r.pc = "done"
    /\ Cardinality(EligibleProducts(r)) = 2
    /\ Len(r.users) = 2
    /\ Len(r.sent) = 4

(* C12: a failed dispatch is contained.  The step in which a send fails    *)
(* leaves the log of attempts as it is (no retry) and moves to the next    *)
(* device of the same product; and an invocation whose very first         *)
(* dispatch failed still ends with one attempt for every (eligible         *)
(* product, device) pair, all the pairs after the failed one included.     *)
C12_Step ==
  \A i \in Slots :
    (runs[i].pc = "send" /\ runs'[i].last = "failed") =>
      /\ runs'[i].pc = "loop"
      /\ runs'[i].sent = runs[i].sent
      /\ runs'[i].p = runs[i].p
      /\ runs'[i].u = runs[i].u + 1

C12_Done ==
  \A i \in Slots :
    LET r == runs[i] IN
    /\ r.firstFail # 0 => r.pc \in {"loop", "send", "done"}
    /\ (r.pc = "done" /\ r.firstFail # 0) =>
         \A k \in EligibleProducts(r) : \A u \in 1..Len(r.users) :
           Attempts(r, k, r.users[u]) = 1

C12_FailureContained == []C12_Done /\ [][C12_Step]_vars

\* The very first dispatch failed, and all four attempts were still made.
C12_Witness ==
  \E i \in Slots :
    LET r == runs[i] IN
    /\ r.pc = "done"
    /\ r.firstFail = 1
    /\ Cardinality(EligibleProducts(r)) = 2
    /\ Len(r.users) = 2
    /\ Len(r.sent) = 4

(* C13: when the transport did not initialize, an invocation is a no-op:   *)
(* it issues no store read and no dispatch attempt, whatever the product   *)
(* and device collections hold.                                            *)
C13_NoOpWithoutTransport ==
  ~firebaseInitialized =>
    \A i \in Slots :
      /\ runs[i].pc \in {"armed", "skipped"}
      /\ runs[i].reads = 0
      /\ runs[i].sent = <<>>

\* A skipped invocation over a store holding an eligible product and a device.
C13_Witness ==
  /\ ~firebaseInitialized
  /\ \E i \in Slots : runs[i].pc = "skipped"
  /\ Len(users) > 0
  /\ \E k \in 1..Len(products) : Eligible(products[k], now)

(* C19: within one invocation dispatches are sequential and ordered: a     *)
(* send is pending exactly while the invocation awaits it, an attempt is   *)
(* issued only when the previous one has settled, and the attempts follow  *)
(* the product scan order and, within a product, the device scan order.    *)
C19_Ordered ==
  \A i \in Slots :
    LET r == runs[i] IN
    /\ (r.pc = "send") = (r.last = "pending")
    /\ \A d, e \in 1..Len(r.sent) :
         d < e =>
           \/ r.sent[d].product < r.sent[e].product
           \/ /\ r.sent[d].product = r.sent[e].product
              /\ DeviceIndex(r, r.sent[d].token) < DeviceIndex(r, r.sent[e].token)

C19_Step ==
  \A i \in Slots :
    runs'[i].sent # runs[i].sent =>
      \/ runs'[i].sent = <<>>
      \/ /\ runs[i].last # "pending"
         /\ runs'[i].last = "pending"
         /\ Len(runs'[i].sent) = Len(runs[i].sent) + 1

C19_SequentialInOrder == []C19_Ordered /\ [][C19_Step]_vars

\* Four attempts in the order (1, t1), (1, t2), (2, t1), (2, t2).
C19_Witness ==
  \E i \in Slots :
    LET r == runs[i] IN
    /\ r.pc = "done"
    /\ Len(r.sent) = 4
    /\ r.sent[1].product = 1 /\ r.sent[1].token = "t1"
    /\ r.sent[2].product = 1 /\ r.sent[2].token = "t2"
    /\ r.sent[3].product = 2 /\ r.sent[3].token = "t1"
    /\ r.sent[4].product = 2 /\ r.sent[4].token = "t2"

\* The callback has ended: normally, by the early return, or by an escaped error.
Ended(r) == r.pc \in {"done", "skipped", "failed"}

(* C14: the scheduler always returns from running to armed: an invocation  *)
(* that was triggered, whether it completes or an error escapes it (a      *)
(* store read that throws), leads to the armed state, and in the armed     *)
(* state the next trigger can start a new invocation.                      *)
C14_Rearmed ==
  \A i \in Slots :
    /\ runs[i].pc = "armed" => ENABLED CronTrigger(i)
    /\ Ended(runs[i]) => ENABLED CronReturns(i)

C14_Returns ==
  \A i \in Slots : (runs[i].pc # "armed") ~> (runs[i].pc = "armed")

C14_AlwaysReturnsToArmed == []C14_Rearmed /\ C14_Returns

\* The product store read threw and the error has escaped the callback.
C14_Witness ==
  \E i \in Slots :
    /\ runs[i].pc = "failed"
    /\ runs[i].reads = 1
    /\ firebaseInitialized

\* The first of the checks, in the order required fields, numeric coercion,
\* date parsing, that the row fails ("none": it reaches the duplicate lookup).
FirstFailing(row) ==
  IF MissingRequired(row) THEN "required"
  ELSE IF BadNumber(row) \/ BadWeight(row) THEN "numeric"
  ELSE IF BadDate(row) THEN "date"
  ELSE "none"

\* The messages with which a failing check is reported.
CheckMessages(check) ==
  IF check = "required" THEN {MissingMsg}
  ELSE IF check = "numeric" THEN {NumberMsg, WeightMsg}
  ELSE IF check = "date" THEN {DateMsg}
  ELSE {}

\* The number of rows of the upload, up to the k-th, that fail none of the checks.
ValidUpTo(k) ==
  Cardinality({j \in 1..Len(results) : j <= k /\ FirstFailing(results[j]) = "none"})

(* C20: the checks of a row are applied in the order required fields,      *)
(* numeric coercion, date parsing, duplicate lookup, and the first failing *)
(* one decides: the step that examines an invalid row lists it under       *)
(* errors with the message of its first failing check, leaves skipped      *)
(* alone and issues no store call, even when the store holds its name; a   *)
(* lookup is issued only for rows that fail none of the three checks.      *)
C20_Step ==
  upPc = "row" =>
    LET row == results[rowIdx]
        check == FirstFailing(row) IN
    IF check # "none"
    THEN /\ Len(errors') = Len(errors) + 1
         /\ errors'[Len(errors')].line = row.lineNumber
         /\ errors'[Len(errors')].error \in CheckMessages(check)
         /\ skipped' = skipped
         /\ upCalls' = upCalls
         /\ products' = products
    ELSE \/ upPc' = "findOne" /\ upCalls'.findOne = upCalls.findOne + 1
         \/ /\ RegExpThrows(Trim(row.name))
            /\ upCalls' = upCalls

C20_Lookups ==
  Processing \/ upPc = "done" =>
    /\ upCalls.findOne <= ValidUpTo(rowIdx)
    /\ \A k \in 1..Len(skipped) :
         \A j \in 1..Len(results) :
           results[j].lineNumber = skipped[k].line => FirstFailing(results[j]) = "none"

C20_FirstFailingCheckDecides == []C20_Lookups /\ [][C20_Step]_vars

\* The store holds "a"; a one-row upload of a row named "a" whose quantity and
\* date are both invalid ended with the number message and without a lookup.
C20_Witness ==
  /\ upPc = "done" /\ upStatus = 200
  /\ NameInStore(<<"a">>, upStart)
  /\ Len(results) = 1
  /\ SameNameCI(Trim(results[1].name), <<"a">>)
  /\ ~MissingRequired(results[1])
  /\ BadNumber(results[1]) /\ BadDate(results[1])
  /\ Len(errors) = 1 /\ errors[1].error = NumberMsg
  /\ skipped = <<>>
  /\ upCalls = NoCalls

\* The number of device records that hold the token.
TimesStored(token) == Cardinality({k \in 1..Len(users) : users[k] = token})

(* C15: device registration is idempotent: a registration of a token that  *)
(* is already stored creates no device record and is answered with the     *)
(* already-registered acknowledgment (200) unless the store call itself     *)
(* fails; so with registrations that do not overlap no token is ever       *)
(* stored twice and every acknowledged token is stored exactly once.       *)
C15_Step ==
  \A c \in Connections :
    (regs[c].pc = "findOne" /\ regs'[c] # regs[c] /\ TimesStored(regs[c].token) > 0) =>
      /\ users' = users
      /\ regs'[c].pc = "done"
      /\ regs'[c].status \in {200, 500}

C15_Once ==
  /\ \A k \in 1..Len(users) : TimesStored(users[k]) = 1
  /\ \A c \in Connections :
       (regs[c].pc = "done" /\ regs[c].status \in {200, 201}) =>
         TimesStored(regs[c].token) = 1

C15_RegistrationIdempotent == []C15_Once /\ [][C15_Step]_vars

\* A stored token was registered again, acknowledged, and is still stored once
\* beside another token.
C15_Witness ==
  \E c \in Connections :
    /\ regs[c].pc = "done" /\ regs[c].status = 200
    /\ TimesStored(regs[c].token) = 1
    /\ Len(users) = 2

(* C16: the duplicate-name check and the create are separate store calls   *)
(* with no lock between them: a create that was called after a passed      *)
(* check can always insert, whatever the store has come to hold in the     *)
(* meantime.  So an upload and a POST /product that carry the same new     *)
(* name can both pass the check and both create (C16_Witness).             *)
C16_CheckThenCreateUnlocked ==
  /\ postPc = "create" => ENABLED (PostCreateReturns /\ postStatus' = 201)
  /\ upPc = "create" =>
       ENABLED (UploadCreateReturns /\ Len(successfulProducts') = Len(successfulProducts) + 1)

\* The upload arrived at an empty store and created "a"; the overlapping
\* POST /product created "a" too: two records share the name.
C16_Witness ==
  /\ app = "index"
  /\ upStart = <<>>
  /\ upPc = "done" /\ upStatus = 200
  /\ Len(successfulProducts) = 1 /\ successfulProducts[1].name = <<"a">>
  /\ upCalls.findOne = 1
  /\ postPc = "done" /\ postStatus = 201 /\ postBody.name = <<"a">>
  /\ Len(products) = 2
  /\ SameNameCI(products[1].name, products[2].name)

(* C18: the scheduler has no skip-if-running guard: a trigger can start an *)
(* invocation whatever the other invocation is doing, and each of two      *)
(* overlapping invocations makes its own attempt for every (eligible       *)
(* product, device) pair of its scan, so one pair can be dispatched once   *)
(* by each (C18_Witness).                                                  *)
C18_NoSkipIfRunning ==
  \A i \in OverlapSlots :
    LET r == runs[i] IN
    /\ r.pc = "armed" => ENABLED CronTrigger(i)
    /\ r.pc = "done" =>
         \A k \in EligibleProducts(r) : \A u \in 1..Len(r.users) :
           Attempts(r, k, r.users[u]) = 1

\* Both invocations are awaiting a send, and each has dispatched the first
\* product to the device t1.
C18_Witness ==
  /\ runs["run1"].pc = "send"
  /\ runs["run2"].pc = "send"
  /\ Attempts(runs["run1"], 1, "t1") = 1
  /\ Attempts(runs["run2"], 1, "t1") = 1

C21_Step ==
  \A i \in Slots :
    /\ (runs[i].pc = "findUsers" /\ runs'[i].pc = "loop") => runs'[i].today = now
    /\ (runs[i].pc \in {"loop", "send"} /\ runs'[i].pc \in {"loop", "send", "done"}) =>
         runs'[i].today = runs[i].today

C21_Instant ==
  \A i \in Slots :
    LET r == runs[i] IN
    /\ \A d \in 1..Len(r.sent) :
         LET prod == r.products[r.sent[d].product] IN
         /\ 0 < prod.expiryDate - r.today
         /\ prod.expiryDate - r.today <= prod.notifyBeforeDays * TicksPerDay
         /\ (r.sent[d].days - 1) * TicksPerDay < prod.expiryDate - r.today
         /\ prod.expiryDate - r.today <= r.sent[d].days * TicksPerDay
    /\ \A k \in 1..Len(r.products) :
         (Scanned(r, k) /\ Eligible(r.products[k], r.today))
           => \A u \in 1..Len(r.users) : Attempted(r, k, r.users[u])

C21_SingleInstant == []C21_Instant /\ [][C21_Step]_vars

\* The second product was eligible when the invocation read the clock and has
\* expired by now; it was still dispatched to both devices.
C21_Witness ==
  \E i \in Slots :
    LET r == runs[i] IN
    /\ r.pc = "done"
    /\ Len(r.products) = 2 /\ Len(r.users) = 2
    /\ r.today < now
    /\ Eligible(r.products[1], r.today)
    /\ Eligible(r.products[2], r.today)
    /\ r.products[2].expiryDate - now <= 0
    /\ Attempts(r, 2, "t1") = 1 /\ Attempts(r, 2, "t2") = 1

(* C22: the day count of every dispatched notification is the ceiling of   *)
(* the days remaining: the least whole number of days that covers the      *)
(* remaining time, at least 1 and at most notifyBeforeDays (a whole number *)
(* of days in the stores of the model).                                    *)
C22_DayCount ==
  \A i \in Slots :
    LET r == runs[i] IN
    \A d \in 1..Len(r.sent) :
      LET prod == r.products[r.sent[d].product]
          remaining == prod.expiryDate - r.today
          count == r.sent[d].days IN
      /\ count \in Nat
      /\ count * TicksPerDay >= remaining
      /\ \A c \in 0..(count - 1) : c * TicksPerDay < remaining
      /\ 1 <= count
      /\ count <= prod.notifyBeforeDays

\* One day and a half remain for a product with a two-day notice: 2 is reported;
\* and half a day remains for another: 1 is reported.
C22_Witness ==
  \E i \in Slots :
    LET r == runs[i] IN
    /\ \E d \in 1..Len(r.sent) :
         /\ r.products[r.sent[d].product].expiryDate - r.today = 3
         /\ r.products[r.sent[d].product].notifyBeforeDays = 2
         /\ r.sent[d].days = 2
    /\ \E d \in 1..Len(r.sent) :
         /\ r.products[r.sent[d].product].expiryDate - r.today = 1
         /\ r.sent[d].days = 1

\* The record is in the collection.
InStore(rec, coll) == \E k \in 1..Len(coll) : coll[k] = rec

(* C23: an invocation works on the collections as it loaded them and       *)
(* never writes to the store: no step of the callback changes a            *)
(* collection, the loaded collections stay as loaded while the store       *)
(* changes, and every dispatch is for a loaded product and a loaded        *)
(* device.  So a product created or a device registered during the run     *)
(* gets no dispatch from it, and a product deleted during the run can      *)
(* still be notified by it (C23_Witness).                                  *)
C23_Step ==
  \A i \in Slots :
    /\ runs'[i] # runs[i] => (products' = products /\ users' = users)
    /\ (runs[i].pc \in {"loop", "send"} /\ runs'[i].pc # "armed") =>
         (runs'[i].products = runs[i].products /\ runs'[i].users = runs[i].users)
    /\ (runs[i].pc = "findProducts" /\ runs'[i].pc = "findUsers") =>
         runs'[i].products = products
    /\ (runs[i].pc = "findUsers" /\ runs'[i].pc = "loop") =>
         (runs'[i].users = users /\ runs'[i].products = runs[i].products)

C23_Loaded ==
  \A i \in Slots :
    LET r == runs[i] IN
    \A d \in 1..Len(r.sent) :
      /\ r.sent[d].product \in 1..Len(r.products)
      /\ r.sent[d].name = r.products[r.sent[d].product].name
      /\ \E u \in 1..Len(r.users) : r.users[u] = r.sent[d].token

C23_WorksOnSnapshot == []C23_Loaded /\ [][C23_Step]_vars

\* The invocation is done.  Its first product was deleted during the run and
\* was still dispatched to every loaded device; the store now holds an eligible
\* product and a device that the invocation did not load and did not serve.
C23_Witness ==
  \E i \in Slots :
    LET r == runs[i] IN
    /\ r.pc = "done"
    /\ Len(r.products) > 0 /\ Len(r.users) > 0
    /\ ~InStore(r.products[1], products)
    /\ \A u \in 1..Len(r.users) : Attempts(r, 1, r.users[u]) = 1
    /\ \E k \in 1..Len(products) :
         /\ ~InStore(products[k], r.products)
         /\ Eligible(products[k], r.today)
         /\ \A d \in 1..Len(r.sent) : r.sent[d].name # products[k].name
    /\ \E k \in 1..Len(users) :
         /\ ~InStore(users[k], r.users)
         /\ \A d \in 1..Len(r.sent) : r.sent[d].token # users[k]

\* No two records of the collection share a name up to case.
UniqueNamesCI(coll) ==
  \A j, k \in 1..Len(coll) : j # k => ~SameNameCI(coll[j].name, coll[k].name)

(* C24: the update preserves the case-insensitive uniqueness of names: a   *)
(* step that rewrites a record of a collection in which no two names are   *)
(* equal up to case leaves a collection in which no two names are equal up *)
(* to case.                                                                *)
C24_Step ==
  (UniqueNamesCI(products) /\ Len(products') = Len(products) /\ products' # products)
    => UniqueNamesCI(products')

C24_UpdateKeepsNamesUnique == [][C24_Step]_vars

\* The connect attempts that have not settled.
InFlight == {a \in 1..Len(db.attempts) : db.attempts[a] = "pending"}

(* C25: connectDB memoizes the connection.  While no connection is cached  *)
(* at most one attempt is in flight, it is the cached promise and every    *)
(* waiting caller awaits it; once an attempt has succeeded no attempt is   *)
(* ever started again; after a failed attempt every caller that awaited it *)
(* gets the error (503), the cached promise is cleared once they have      *)
(* run, and the next call starts exactly one fresh attempt.                *)
C25_Cached ==
  /\ Cardinality(InFlight) <= 1
  /\ \A a \in InFlight : db.promise = a /\ ~db.conn
  /\ \A q \in Requests :
       /\ db.callers[q].pc = "await" => db.callers[q].awaits \in InFlight
       /\ db.callers[q].pc = "next" => db.conn
       /\ db.callers[q].pc = "503" => db.attempts[db.callers[q].awaits] = "rejected"
  /\ (~MicrotasksPending /\ db.promise # 0) => db.attempts[db.promise] # "rejected"

C25_Step ==
  /\ db.conn => (db'.conn /\ db'.attempts = db.attempts)
  /\ Len(db'.attempts) # Len(db.attempts) =>
       /\ Len(db'.attempts) = Len(db.attempts) + 1
       /\ db.promise = 0 /\ InFlight = {}
       /\ db'.promise = Len(db'.attempts)
  /\ \A q \in Requests :
       /\ (db.callers[q].pc = "idle" /\ db'.callers[q].pc # "idle"
             /\ ~db.conn /\ db.promise = 0) =>
            Len(db'.attempts) = Len(db.attempts) + 1
       /\ (db.callers[q].pc = "resumed" /\ db'.callers[q].pc # "resumed"
             /\ db.attempts[db.callers[q].awaits] = "rejected") =>
            db'.callers[q].pc = "503"

C25_ConnectionMemoized == []C25_Cached /\ [][C25_Step]_vars

\* Two requests shared the first attempt, which failed: both were answered
\* 503; the third request then started the second attempt, now in flight.
C25_Witness ==
  /\ db.attempts = <<"rejected", "pending">>
  /\ db.callers["q1"] = [pc |-> "503", awaits |-> 1]
  /\ db.callers["q2"] = [pc |-> "503", awaits |-> 1]
  /\ db.callers["q3"] = [pc |-> "await", awaits |-> 2]
  /\ db.promise = 2

====
